---- MODULE Spec2Model ----
(***************************************************************************)
(* Model of the simple debugger (sdb) of NEMU: the expression engine of    *)
(* src/monitor/sdb/expr.c, the watchpoint pool of                          *)
(* src/monitor/sdb/watchpoint.c and the command handlers of                *)
(* src/monitor/sdb/sdb.c that drive them.                                  *)
(*                                                                         *)
(* Conventions.  A C string is a sequence of one-character strings.  A     *)
(* pointer to a watchpoint_t is the id of the node it points to (0..NR_WP-1*)
(* for wp_pool[], -1 and -2 for the two sentinels).  An int64_t / word_t   *)
(* value is written as the signed integer with the same bit pattern.       *)
(***************************************************************************)
EXTENDS Integers, Sequences, FiniteSets, TLC

VARIABLES
    wp_next,        \* watchpoint_t.next of every node
    wp_prev,        \* watchpoint_t.prev of every node
    wp_counter,     \* watchpoint_t.counter of every pool slot
    wp_last_val,    \* watchpoint_t.last_val of every pool slot
    wp_expr,        \* watchpoint_t.expr of every pool slot
    tokens,         \* static Token tokens[32]
    num_of_token,   \* static int num_of_token
    pc,             \* the simulated register the resolver maps "$pc" to
    halted,         \* TRUE once an assert(0) or a trap has ended the process
    pending,        \* the p command lines typed ahead, not yet executed
    out,            \* what the last handler was given and what it produced
    expect,         \* history: the reference value of a generated input
    onlyCreates,    \* history: no registry call but creates since init_wp_pool
    born            \* history: ids of the active watchpoints, oldest first

vars == <<wp_next, wp_prev, wp_counter, wp_last_val, wp_expr, tokens,
          num_of_token, pc, halted, pending, out, expect, onlyCreates, born>>

(***************************************************************************)
(* Bounds of the model.                                                    *)
(***************************************************************************)
\* Capacity of the watchpoint pool.  The source sets 32 (#define NR_WP); the
\* model keeps every use of NR_WP symbolic and explores a smaller pool.
NR_WP == 3
\* check_wp is not called once some active counter has reached this value
\* (the int counter of the source grows without limit).
MaxCounter == 3
\* Largest number of binary operators in a generated operator chain.
MaxOps == 2
\* Largest number of pieces in a generated lexer input.
MaxPieces == 3
\* The simulated register takes the values 0..MaxPc.
MaxPc == 1
\* Largest number of pieces in a generated evaluator input.
MaxEvalPieces == 4

(***************************************************************************)
(* token_enum_t (expr.c:24-34).  Single-character kinds use their ASCII    *)
(* code, the others count up from 256.                                     *)
(***************************************************************************)
DUMMY_1 == 43
DUMMY_2 == 45
DUMMY_3 == 42
TK_DIV == 47
TK_PAR_L == 40
TK_PAR_R == 41
TK_BOOL_LT == 60
TK_BOOL_GT == 62
TK_NOTYPE == 256
TK_BOOL_EQ == 257
TK_INT == 258
TK_REG == 259
TK_BOOL_LE == 260
TK_BOOL_GE == 261
TK_ADD == 262
TK_MINUS == 263
TK_MUL == 264
TK_POS == 265
TK_NEG == 266
TK_DEREF == 267

\* Token tokens[32]
NR_TOKEN == 32
\* char str[32] of a Token: at most 31 characters and the terminator
TOKEN_STR_SIZE == 32

(***************************************************************************)
(* Characters.                                                             *)
(***************************************************************************)
Digits == {"0", "1", "2", "3", "4", "5", "6", "7", "8", "9"}

Letters ==
    {"a", "b", "c", "d", "e", "f", "g", "h", "i", "j", "k", "l", "m",
     "n", "o", "p", "q", "r", "s", "t", "u", "v", "w", "x", "y", "z",
     "A", "B", "C", "D", "E", "F", "G", "H", "I", "J", "K", "L", "M",
     "N", "O", "P", "Q", "R", "S", "T", "U", "V", "W", "X", "Y", "Z"}

\* \w of the regex library
WordChars == Digits \cup Letters \cup {"_"}

DigitVal(c) ==
    CASE c = "0" -> 0 [] c = "1" -> 1 [] c = "2" -> 2 [] c = "3" -> 3
      [] c = "4" -> 4 [] c = "5" -> 5 [] c = "6" -> 6 [] c = "7" -> 7
      [] c = "8" -> 8 [] c = "9" -> 9

\* Number of consecutive characters of s, from position i on, that are in set.
RECURSIVE RunLen(_, _, _)
RunLen(s, i, set) ==
    IF i <= Len(s) /\ s[i] \in set THEN 1 + RunLen(s, i + 1, set) ELSE 0

\* The literal w stands in s at position i.
LitAt(s, i, w) ==
    /\ i + Len(w) - 1 <= Len(s)
    /\ \A k \in 1..Len(w) : s[i + k - 1] = w[k]

Max(a, b) == IF a >= b THEN a ELSE b

(***************************************************************************)
(* get_priority and is_operand.                                            *)
(***************************************************************************)
\* get_priority giving '*' and '/' the priority of '+' and '-'.
get_priority_flat(op_type) ==
    IF op_type \in {TK_POS, TK_NEG, TK_DEREF} THEN 3
    ELSE IF op_type \in {TK_MUL, TK_DIV, TK_ADD, TK_MINUS} THEN 1
    ELSE IF op_type \in {TK_BOOL_EQ, TK_BOOL_LT, TK_BOOL_GT, TK_BOOL_LE, TK_BOOL_GE}
         THEN 0
    ELSE -1

\* is_operand that leaves the ')' out.
is_operand_no_paren(op_type) == op_type \in {TK_INT, TK_REG}

\* The priority of an operator; -1 stands for the assert(0) an operand meets.
get_priority(op_type) ==
    IF op_type \in {TK_POS, TK_NEG, TK_DEREF} THEN 3
    ELSE IF op_type \in {TK_MUL, TK_DIV} THEN 2
    ELSE IF op_type \in {TK_ADD, TK_MINUS} THEN 1
    ELSE IF op_type \in {TK_BOOL_EQ, TK_BOOL_LT, TK_BOOL_GT, TK_BOOL_LE, TK_BOOL_GE}
         THEN 0
    ELSE -1

is_operand(op_type) == op_type \in {TK_INT, TK_REG, TK_PAR_R}

(***************************************************************************)
(* The rule table and the regex matcher.                                   *)
(***************************************************************************)
rules ==
    << [regex |-> " +",          token_type |-> TK_NOTYPE],
       [regex |-> "\\+",         token_type |-> DUMMY_1],
       [regex |-> "-",           token_type |-> DUMMY_2],
       [regex |-> "\\*",         token_type |-> DUMMY_3],
       [regex |-> "/",           token_type |-> TK_DIV],
       [regex |-> "==",          token_type |-> TK_BOOL_EQ],
       [regex |-> "(0x)?[0-9]+", token_type |-> TK_INT],
       [regex |-> "\\(",         token_type |-> TK_PAR_L],
       [regex |-> "\\)",         token_type |-> TK_PAR_R],
       [regex |-> "\\$\\w+",     token_type |-> TK_REG],
       [regex |-> "<",           token_type |-> TK_BOOL_LT],
       [regex |-> ">",           token_type |-> TK_BOOL_GT],
       [regex |-> "<=",          token_type |-> TK_BOOL_LE],
       [regex |-> ">=",          token_type |-> TK_BOOL_GE] >>

NR_REGEX == Len(rules)

\* regexec(&re[i], s + pos - 1, ...) followed by the test rm_so == 0: the
\* length rm_eo of the leftmost-longest match of rule i when that match starts
\* at position pos of s, and -1 when the rule has no match starting there.
regexec(i, s, pos) ==
    LET one(w) == IF LitAt(s, pos, w) THEN Len(w) ELSE -1
        run(set) == IF RunLen(s, pos, set) > 0 THEN RunLen(s, pos, set) ELSE -1
    IN CASE i = 1 -> run({" "})
         [] i = 2 -> one(<<"+">>)
         [] i = 3 -> one(<<"-">>)
         [] i = 4 -> one(<<"*">>)
         [] i = 5 -> one(<<"/">>)
         [] i = 6 -> one(<<"=", "=">>)
         [] i = 7 -> Max(run(Digits),
                         IF LitAt(s, pos, <<"0", "x">>) /\ RunLen(s, pos + 2, Digits) > 0
                         THEN 2 + RunLen(s, pos + 2, Digits) ELSE -1)
         [] i = 8 -> one(<<"(">>)
         [] i = 9 -> one(<<")">>)
         [] i = 10 -> IF LitAt(s, pos, <<"$">>) /\ RunLen(s, pos + 1, WordChars) > 0
                      THEN 1 + RunLen(s, pos + 1, WordChars) ELSE -1
         [] i = 11 -> one(<<"<">>)
         [] i = 12 -> one(<<">">>)
         [] i = 13 -> one(<<"<", "=">>)
         [] i = 14 -> one(<<">", "=">>)

\* The for loop of make_token over the rules, from rule i on: the first rule,
\* in table order, that matches at pos; NR_REGEX + 1 when the loop runs to
\* its end.
RECURSIVE FirstRuleFrom(_, _, _)
FirstRuleFrom(i, s, pos) ==
    IF i > NR_REGEX THEN NR_REGEX + 1
    ELSE IF regexec(i, s, pos) > 0 THEN i
    ELSE FirstRuleFrom(i + 1, s, pos)

FirstRule(s, pos) == FirstRuleFrom(1, s, pos)

(***************************************************************************)
(* make_token.                                                             *)
(***************************************************************************)
\* tokens[] = {} : the zero-initialised static buffer
EmptyTokens == [i \in 0..(NR_TOKEN - 1) |-> [type |-> 0, str |-> <<>>]]

\* The type a '+', '-' or '*' gets as a unary operator and as a binary one.
UnaryOf(ch) == CASE ch = DUMMY_1 -> TK_POS [] ch = DUMMY_2 -> TK_NEG [] ch = DUMMY_3 -> TK_DEREF

BinaryOf(ch) == CASE ch = DUMMY_1 -> TK_ADD [] ch = DUMMY_2 -> TK_MINUS [] ch = DUMMY_3 -> TK_MUL

\* The test of make_token that decides between the two meanings.
TakesUnary(toks, n) == n = 0 \/ ~is_operand(toks[n - 1].type)

\* The switch of make_token on the matched rule's token_type: the buffer after
\* the token is stored at index n.
StoreToken(toks, n, ty, substr) ==
    IF ty \in {TK_REG, TK_INT}
    THEN [toks EXCEPT ![n] = [type |-> ty, str |-> substr]]
    ELSE IF ty \in {DUMMY_1, DUMMY_2, DUMMY_3}
    THEN [toks EXCEPT ![n].type =
              IF TakesUnary(toks, n) THEN UnaryOf(ty) ELSE BinaryOf(ty)]
    ELSE [toks EXCEPT ![n].type = ty]

\* The while loop of make_token from parse position pos (1-based) with n
\* tokens stored.  st is "ok" (return true), "nomatch" (return false) or
\* "overflow" (a store beyond tokens[31] or beyond str[31]: undefined).
RECURSIVE make_token_loop(_, _, _, _)
make_token_loop(s, pos, toks, n) ==
    IF pos > Len(s) THEN [st |-> "ok", tokens |-> toks, num |-> n, pos |-> pos]
    ELSE LET i == FirstRule(s, pos)
         IN IF i = NR_REGEX + 1
            THEN [st |-> "nomatch", tokens |-> toks, num |-> n, pos |-> pos]
            ELSE LET len == regexec(i, s, pos)
                     ty == rules[i].token_type
                 IN IF ty = TK_NOTYPE THEN make_token_loop(s, pos + len, toks, n)
                    ELSE IF n >= NR_TOKEN \/ (ty \in {TK_REG, TK_INT} /\ len >= TOKEN_STR_SIZE)
                    THEN [st |-> "overflow", tokens |-> toks, num |-> n, pos |-> pos]
                    ELSE make_token_loop(s, pos + len,
                             StoreToken(toks, n, ty, SubSeq(s, pos, pos + len - 1)),
                             n + 1)

\* make_token(str_to_be_parsed) on the buffer toks left by the calls before.
make_token(s, toks) == make_token_loop(s, 1, toks, 0)

(***************************************************************************)
(* The capabilities the emulator provides to the evaluator.                *)
(***************************************************************************)
\* isa_reg_str2val(name, &feedback): the resolver maps the name "$pc" to the
\* register regs and no other name.
isa_reg_str2val(name, regs) ==
    IF name = <<"$", "p", "c">> THEN [feedback |-> TRUE, val |-> regs]
    ELSE [feedback |-> FALSE, val |-> 0]

\* vaddr_read(addr, len): a fixed memory image.
vaddr_read(addr, len) == addr + 100

(***************************************************************************)
(* strtol(str, NULL, 0).                                                   *)
(***************************************************************************)
\* The digits of s from position i on, read in the given base up to the first
\* character that is no digit of that base; acc is the value read so far.
RECURSIVE ParseDigits(_, _, _, _)
ParseDigits(s, i, base, acc) ==
    IF i <= Len(s) /\ s[i] \in Digits /\ DigitVal(s[i]) < base
    THEN ParseDigits(s, i + 1, base, acc * base + DigitVal(s[i]))
    ELSE acc

\* Base 0: a "0x" prefix before a hexadecimal digit selects base 16, another
\* leading "0" base 8, anything else base 10.
strtol(s) ==
    IF LitAt(s, 1, <<"0", "x">>) /\ Len(s) >= 3 /\ s[3] \in Digits
    THEN ParseDigits(s, 3, 16, 0)
    ELSE IF LitAt(s, 1, <<"0">>) THEN ParseDigits(s, 2, 8, 0)
    ELSE ParseDigits(s, 1, 10, 0)

\* The / of C on int64_t: the quotient truncated toward zero (b # 0).
CDiv(a, b) ==
    LET abs(x) == IF x < 0 THEN -x ELSE x
        q == abs(a) \div abs(b)
    IN IF (a < 0) = (b < 0) THEN q ELSE -q

(***************************************************************************)
(* check_parentheses, find_major_operator, cal_expr, expr.                 *)
(***************************************************************************)
\* tokens[i].type.  cal_expr on an empty token sequence reads tokens[-1],
\* outside the array; whatever it reads, the range stays empty, so the model
\* gives that read the value 0.
TokType(toks, i) == IF i \in 0..(NR_TOKEN - 1) THEN toks[i].type ELSE 0

RECURSIVE check_parentheses_loop(_, _, _, _)
check_parentheses_loop(toks, i, end_index, num_of_left_parentheses) ==
    IF i > end_index THEN TRUE
    ELSE IF TokType(toks, i) = TK_PAR_L
    THEN check_parentheses_loop(toks, i + 1, end_index, num_of_left_parentheses + 1)
    ELSE IF TokType(toks, i) = TK_PAR_R
    THEN IF num_of_left_parentheses - 1 < 0 THEN FALSE
         ELSE check_parentheses_loop(toks, i + 1, end_index, num_of_left_parentheses - 1)
    ELSE check_parentheses_loop(toks, i + 1, end_index, num_of_left_parentheses)

check_parentheses(toks, begin_index, end_index) ==
    check_parentheses_loop(toks, begin_index, end_index, 0)

\* The for loop of find_major_operator.  st is "ret" (pos is returned) or
\* "assert"; at names the assert that failed: "depth" is the assert(0) of the
\* loop (expr.c:253), "get_priority" the one get_priority ends with.
RECURSIVE find_major_loop(_, _, _, _, _, _)
find_major_loop(toks, i, end_index, major_op_pos, num_of_left_parentheses, min_priority) ==
    IF i >= end_index THEN [st |-> "ret", pos |-> major_op_pos, at |-> ""]
    ELSE LET t == TokType(toks, i)
         IN IF t = TK_INT
            THEN find_major_loop(toks, i + 1, end_index, major_op_pos,
                                 num_of_left_parentheses, min_priority)
            ELSE IF t = TK_PAR_L
            THEN find_major_loop(toks, i + 1, end_index, major_op_pos,
                                 num_of_left_parentheses + 1, min_priority)
            ELSE IF t = TK_PAR_R
            THEN find_major_loop(toks, i + 1, end_index, major_op_pos,
                                 num_of_left_parentheses - 1, min_priority)
            ELSE IF num_of_left_parentheses > 0
            THEN find_major_loop(toks, i + 1, end_index, major_op_pos,
                                 num_of_left_parentheses, min_priority)
            ELSE IF num_of_left_parentheses < 0
            THEN [st |-> "assert", pos |-> i, at |-> "depth"]
            ELSE IF get_priority(t) = -1
            THEN [st |-> "assert", pos |-> i, at |-> "get_priority"]
            ELSE IF get_priority(t) <= min_priority
            THEN find_major_loop(toks, i + 1, end_index, i,
                                 num_of_left_parentheses, get_priority(t))
            ELSE find_major_loop(toks, i + 1, end_index, major_op_pos,
                                 num_of_left_parentheses, min_priority)

find_major_operator(toks, begin_index, end_index) ==
    find_major_loop(toks, begin_index, end_index, -1, 0, 2)

\* The ways a call of cal_expr ends: a return (msg is the diagnostic it
\* printed first, "" when it printed none), a failed assert (at names it:
\* "depth" and "get_priority" as in find_major_operator, "major_op_pos" for
\* expr.c:312, "switch" for expr.c:328, "end" for expr.c:331), and the trap of
\* a division by zero.  calls counts the calls of cal_expr made, this one
\* included.
Return(v, m) == [st |-> "ret", val |-> v, msg |-> m, at |-> "", calls |-> 1]

AssertFail(m, at) == [st |-> "assert", val |-> 0, msg |-> m, at |-> at, calls |-> 1]

DivTrap == [st |-> "fpe", val |-> 0, msg |-> "", at |-> "", calls |-> 1]

\* A call on a range that is not shorter than the range of the call that made
\* it: the recursion has stopped shrinking and is followed no further.
NoShrink == [st |-> "noshrink", val |-> 0, msg |-> "", at |-> "", calls |-> 1]

\* The switch of cal_expr on the major operator.
ApplyBinary(op_type, val_1, val_2) ==
    LET bool(b) == IF b THEN 1 ELSE 0
    IN CASE op_type = TK_ADD -> val_1 + val_2
         [] op_type = TK_MINUS -> val_1 - val_2
         [] op_type = TK_MUL -> val_1 * val_2
         [] op_type = TK_DIV -> CDiv(val_1, val_2)
         [] op_type = TK_BOOL_EQ -> bool(val_1 = val_2)
         [] op_type = TK_BOOL_GT -> bool(val_1 > val_2)
         [] op_type = TK_BOOL_LT -> bool(val_1 < val_2)
         [] op_type = TK_BOOL_GE -> bool(val_1 >= val_2)
         [] op_type = TK_BOOL_LE -> bool(val_1 <= val_2)

BinaryOps ==
    {TK_ADD, TK_MINUS, TK_MUL, TK_DIV, TK_BOOL_EQ, TK_BOOL_GT, TK_BOOL_LT,
     TK_BOOL_GE, TK_BOOL_LE}

\* The diagnostic of two evaluations made one after the other.
FirstMsg(m1, m2) == IF m1 # "" THEN m1 ELSE m2

\* cal_expr(begin_index, end_index) on the token buffer toks with the
\* register value regs; outer is the length of the range of the calling
\* frame (of the token sequence plus one for the call made by expr).
RECURSIVE cal_expr(_, _, _, _, _)

\* The range of a single token (expr.c:280-296).
cal_expr_single(toks, b, regs) ==
    IF toks[b].type = TK_INT THEN Return(strtol(toks[b].str), "")
    ELSE IF toks[b].type = TK_REG
    THEN IF isa_reg_str2val(toks[b].str, regs).feedback
         THEN Return(isa_reg_str2val(toks[b].str, regs).val, "")
         ELSE Return(0, "Invalid register expression")
    ELSE Return(0, "Invalid expression")

\* The unary operator op_type applied to what the call on its operand gave.
cal_expr_unary_apply(op_type, v) ==
    IF v.st # "ret" THEN [v EXCEPT !.calls = 1 + v.calls]
    ELSE IF op_type = TK_POS THEN [v EXCEPT !.calls = 1 + v.calls]
    ELSE IF op_type = TK_NEG THEN [v EXCEPT !.val = -v.val, !.calls = 1 + v.calls]
    ELSE [v EXCEPT !.val = vaddr_read(v.val, 8), !.calls = 1 + v.calls]

\* The two-token case with the recursive call made on the same two tokens.
cal_expr_unary_same(toks, b, e, regs) ==
    IF toks[b].type \in {TK_POS, TK_NEG, TK_DEREF}
    THEN cal_expr_unary_apply(toks[b].type, cal_expr(toks, b, e, regs, e - b + 1))
    ELSE AssertFail("Expected operator at token index", "end")

\* The range of two tokens (expr.c:297-308).
cal_expr_unary(toks, b, e, regs) ==
    IF toks[b].type \in {TK_POS, TK_NEG, TK_DEREF}
    THEN cal_expr_unary_apply(toks[b].type, cal_expr(toks, b + 1, e, regs, e - b + 1))
    ELSE AssertFail("Expected operator at token index", "end")

\* The switch on the major operator op_type, given what the calls on the two
\* sides returned (expr.c:317-329).
cal_expr_switch(op_type, val_1, val_2) ==
    IF val_2.st # "ret"
    THEN [val_2 EXCEPT !.msg = FirstMsg(val_1.msg, val_2.msg),
                       !.calls = 1 + val_1.calls + val_2.calls]
    ELSE IF op_type \notin BinaryOps
    THEN [AssertFail(FirstMsg(val_1.msg, val_2.msg), "switch")
             EXCEPT !.calls = 1 + val_1.calls + val_2.calls]
    ELSE IF op_type = TK_DIV /\ val_2.val = 0
    THEN [DivTrap EXCEPT !.calls = 1 + val_1.calls + val_2.calls]
    ELSE [Return(ApplyBinary(op_type, val_1.val, val_2.val),
                 FirstMsg(val_1.msg, val_2.msg))
             EXCEPT !.calls = 1 + val_1.calls + val_2.calls]

\* The call on the right side, made once the call on the left side returned
\* val_1 (expr.c:315).
cal_expr_right(toks, major_op_pos, e, regs, len, val_1) ==
    IF val_1.st # "ret" THEN [val_1 EXCEPT !.calls = 1 + val_1.calls]
    ELSE cal_expr_switch(toks[major_op_pos].type, val_1,
                         cal_expr(toks, major_op_pos + 1, e, regs, len))

\* The general case from the result major of find_major_operator on
\* (expr.c:312-314).
cal_expr_split(toks, b, e, regs, major) ==
    IF major.st = "assert" THEN AssertFail("", major.at)
    ELSE IF major.pos = -1 THEN AssertFail("", "major_op_pos")
    ELSE cal_expr_right(toks, major.pos, e, regs, e - b + 1,
                        cal_expr(toks, b, major.pos - 1, regs, e - b + 1))

\* The range [b, e] left once the outer parentheses are taken off
\* (expr.c:276-331).
cal_expr_range(toks, b, e, regs) ==
    IF b > e THEN AssertFail("Expected expression at token index", "end")
    ELSE IF b = e THEN cal_expr_single(toks, b, regs)
    ELSE IF e - b = 1 THEN cal_expr_unary(toks, b, e, regs)
    ELSE cal_expr_split(toks, b, e, regs, find_major_operator(toks, b, e))

cal_expr(toks, begin_index, end_index, regs, outer) ==
    IF end_index - begin_index + 1 >= outer THEN NoShrink
    ELSE IF ~check_parentheses(toks, begin_index, end_index)
    THEN Return(0, "Parentheses not match.")
    ELSE IF TokType(toks, begin_index) = TK_PAR_L /\ TokType(toks, end_index) = TK_PAR_R
    THEN cal_expr_range(toks, begin_index + 1, end_index - 1, regs)
    ELSE cal_expr_range(toks, begin_index, end_index, regs)

\* What expr returns once make_token has returned mt and, when it returned
\* true, cal_expr has returned r.
expr_result(mt, r, success0) ==
    [st |-> r.st, val |-> r.val, success |-> success0, msg |-> r.msg,
     at |-> r.at, calls |-> r.calls, tokens |-> mt.tokens, num |-> mt.num]

\* What expr does after make_token has returned mt.
expr_after(mt, success0, regs) ==
    IF mt.st = "nomatch"
    THEN [expr_result(mt, Return(0, "no match"), FALSE) EXCEPT !.calls = 0]
    ELSE IF mt.st = "overflow"
    THEN [expr_result(mt, Return(0, ""), success0) EXCEPT !.st = "overflow", !.calls = 0]
    ELSE expr_result(mt, cal_expr(mt.tokens, 0, mt.num - 1, regs, mt.num + 1), success0)

\* expr(e, &success) on the token buffer toks, with the caller's flag holding
\* success0 at the call.  st is "ret", "assert" or "fpe" as for cal_expr, or
\* "overflow" when make_token stored outside its buffers.  *success is
\* written on the one path where make_token fails.
expr(e, toks, success0, regs) == expr_after(make_token(e, toks), success0, regs)

(***************************************************************************)
(* The watchpoint pool.                                                    *)
(***************************************************************************)
\* wp_dummy[0], the sentinel of the active list: its id
head == -1
\* wp_dummy[1], the sentinel of the free list: its id
free_ == -2

Slots == 0..(NR_WP - 1)

Nodes == Slots \cup {head, free_}

\* init_wp_pool: the links after it, as [next, prev].
init_wp_pool ==
    LET n0 == [x \in Nodes |-> IF x \in Slots THEN x + 1 ELSE x]
        p0 == [x \in Nodes |-> IF x \in Slots THEN x - 1 ELSE x]
        n1 == [n0 EXCEPT ![NR_WP - 1] = free_]
        p1 == [p0 EXCEPT ![0] = free_]
        n2 == [n1 EXCEPT ![free_] = 0]
        p2 == [p1 EXCEPT ![free_] = NR_WP - 1]
        n3 == [n2 EXCEPT ![head] = head]
        p3 == [p2 EXCEPT ![head] = head]
    IN [next |-> n3, prev |-> p3]

\* The nodes met from node cur by following link up to the sentinel stop, cur
\* excluded; a walk of more than fuel steps is cut (the C loop would not end).
RECURSIVE Walk(_, _, _, _)
Walk(link, cur, stop, fuel) ==
    IF link[cur] = stop \/ fuel = 0 THEN <<>>
    ELSE <<link[cur]>> \o Walk(link, link[cur], stop, fuel - 1)

\* new_wp taking the last node of the free list instead of the first.
new_wp_tail(W) ==
    IF W.next[free_] = free_
    THEN [st |-> "assert", res |-> free_, pool |-> W]
    ELSE LET res == W.prev[free_]
             n1 == [W.next EXCEPT ![W.prev[res]] = free_]
             p1 == [W.prev EXCEPT ![free_] = W.prev[res]]
             p2 == [p1 EXCEPT ![n1[head]] = res]
             p3 == [p2 EXCEPT ![res] = head]
             n2 == [n1 EXCEPT ![res] = n1[head]]
             n3 == [n2 EXCEPT ![head] = res]
         IN [st |-> "ret", res |-> res,
             pool |-> [W EXCEPT !.next = n3, !.prev = p3, !.counter[res] = 0]]

\* new_wp on the pool W (its next, prev, counter, last_val and expr fields):
\* st is "assert" when the free list is empty, else "ret" with the node res
\* taken from the free list, linked after head, its counter reset.
new_wp(W) ==
    IF W.next[free_] = free_
    THEN [st |-> "assert", res |-> free_, pool |-> W]
    ELSE LET res == W.next[free_]
             n1 == [W.next EXCEPT ![free_] = W.next[res]]
             p1 == [W.prev EXCEPT ![n1[free_]] = free_]
             p2 == [p1 EXCEPT ![n1[head]] = res]
             p3 == [p2 EXCEPT ![res] = head]
             n2 == [n1 EXCEPT ![res] = n1[head]]
             n3 == [n2 EXCEPT ![head] = res]
         IN [st |-> "ret", res |-> res,
             pool |-> [W EXCEPT !.next = n3, !.prev = p3, !.counter[res] = 0]]

\* free_wp leaving everything as it is when slot n is on the free list.
free_wp_skip_free(W, n) ==
    IF n < 0 \/ n >= NR_WP
    THEN [ret |-> -1, pool |-> W]
    ELSE IF \E k \in 1..Len(Walk(W.next, free_, free_, NR_WP + 1)) :
                Walk(W.next, free_, free_, NR_WP + 1)[k] = n
    THEN [ret |-> 0, pool |-> W]
    ELSE LET wp == n
             n1 == [W.next EXCEPT ![W.prev[wp]] = W.next[wp]]
             p1 == [W.prev EXCEPT ![n1[wp]] = W.prev[wp]]
             p2 == [p1 EXCEPT ![n1[free_]] = wp]
             p3 == [p2 EXCEPT ![wp] = free_]
             n2 == [n1 EXCEPT ![wp] = n1[free_]]
             n3 == [n2 EXCEPT ![free_] = wp]
         IN [ret |-> 0, pool |-> [W EXCEPT !.next = n3, !.prev = p3]]

\* free_wp that also resets the counter of every slot.
free_wp_reprime(W, n) ==
    IF n < 0 \/ n >= NR_WP
    THEN [ret |-> -1, pool |-> W]
    ELSE LET wp == n
             n1 == [W.next EXCEPT ![W.prev[wp]] = W.next[wp]]
             p1 == [W.prev EXCEPT ![n1[wp]] = W.prev[wp]]
             p2 == [p1 EXCEPT ![n1[free_]] = wp]
             p3 == [p2 EXCEPT ![wp] = free_]
             n2 == [n1 EXCEPT ![wp] = n1[free_]]
             n3 == [n2 EXCEPT ![free_] = wp]
         IN [ret |-> 0,
             pool |-> [W EXCEPT !.next = n3, !.prev = p3,
                                !.counter = [i \in 0..(NR_WP - 1) |-> 0]]]

\* free_wp without the statement wp->next->prev = wp->prev.
free_wp_half_unlink(W, n) ==
    IF n < 0 \/ n >= NR_WP
    THEN [ret |-> -1, pool |-> W]
    ELSE LET wp == n
             n1 == [W.next EXCEPT ![W.prev[wp]] = W.next[wp]]
             p2 == [W.prev EXCEPT ![n1[free_]] = wp]
             p3 == [p2 EXCEPT ![wp] = free_]
             n2 == [n1 EXCEPT ![wp] = n1[free_]]
             n3 == [n2 EXCEPT ![free_] = wp]
         IN [ret |-> 0, pool |-> [W EXCEPT !.next = n3, !.prev = p3]]

\* free_wp linking the slot before the free sentinel, at the end of the list.
free_wp_tail(W, n) ==
    IF n < 0 \/ n >= NR_WP
    THEN [ret |-> -1, pool |-> W]
    ELSE LET wp == n
             n1 == [W.next EXCEPT ![W.prev[wp]] = W.next[wp]]
             p1 == [W.prev EXCEPT ![n1[wp]] = W.prev[wp]]
             n2 == [n1 EXCEPT ![p1[free_]] = wp]
             p2 == [p1 EXCEPT ![wp] = p1[free_]]
             n3 == [n2 EXCEPT ![wp] = free_]
             p3 == [p2 EXCEPT ![free_] = wp]
         IN [ret |-> 0, pool |-> [W EXCEPT !.next = n3, !.prev = p3]]

\* free_wp(n) on the pool W: ret is the value returned.
free_wp(W, n) ==
    IF n < 0 \/ n >= NR_WP
    THEN [ret |-> -1, pool |-> W]
    ELSE LET wp == n
             n1 == [W.next EXCEPT ![W.prev[wp]] = W.next[wp]]
             p1 == [W.prev EXCEPT ![n1[wp]] = W.prev[wp]]
             p2 == [p1 EXCEPT ![n1[free_]] = wp]
             p3 == [p2 EXCEPT ![wp] = free_]
             n2 == [n1 EXCEPT ![wp] = n1[free_]]
             n3 == [n2 EXCEPT ![free_] = wp]
         IN [ret |-> 0, pool |-> [W EXCEPT !.next = n3, !.prev = p3]]

\* wp_watch(expr, res) on the pool W: a new watchpoint holding the text and
\* the value just computed for it.
wp_watch(W, text, res) ==
    LET w == new_wp(W)
    IN IF w.st # "ret" THEN w
       ELSE [w EXCEPT !.pool.expr[w.res] = text, !.pool.last_val[w.res] = res]

\* The active watchpoints in the order check_wp visits them (along next).
ActiveList == Walk(wp_next, head, head, NR_WP + 1)

\* The free slots in the order new_wp will hand them out.
FreeList == Walk(wp_next, free_, free_, NR_WP + 1)

SeqToSet(s) == {s[i] : i \in 1..Len(s)}

\* One pass of the loop body of check_wp on a watchpoint cur visited before:
\* r is what expr returned for its text.
check_wp_visit(S, cur, r) ==
    LET S2 == [S EXCEPT !.counter[cur] = S.counter[cur] + 1,
                        !.visited = Append(S.visited, cur),
                        !.tokens = r.tokens, !.num = r.num]
    IN IF r.st # "ret" THEN [S2 EXCEPT !.st = r.st]
       ELSE IF r.success = FALSE THEN [S2 EXCEPT !.st = "assert"]
       ELSE [S2 EXCEPT !.last_val[cur] = r.val,
                       !.res = IF r.val # S.last_val[cur] THEN 1 ELSE S.res,
                       !.reported = IF r.val # S.last_val[cur]
                                    THEN Append(S.reported, cur)
                                    ELSE S.reported]

\* The body of the while loop of check_wp for the watchpoints of todo, in
\* order.  S carries the fields the loop writes and the ids the body ran on;
\* g is the content of the local flag `success`, which nothing initialises.
RECURSIVE check_wp_loop(_, _, _, _)
check_wp_loop(todo, S, g, regs) ==
    IF todo = <<>> \/ S.st # "ret" THEN S
    ELSE IF S.counter[Head(todo)] = 0
    THEN check_wp_loop(Tail(todo),
                       [S EXCEPT !.counter[Head(todo)] = 1,
                                 !.visited = Append(S.visited, Head(todo))],
                       g, regs)
    ELSE check_wp_loop(Tail(todo),
                       check_wp_visit(S, Head(todo),
                                      expr(S.expr[Head(todo)], S.tokens, g, regs)),
                       g, regs)

\* check_wp from the state given by the variables.
check_wp(g) ==
    check_wp_loop(ActiveList,
                  [st |-> "ret", res |-> 0, reported |-> <<>>, visited |-> <<>>,
                   counter |-> wp_counter, last_val |-> wp_last_val,
                   expr |-> wp_expr, tokens |-> tokens, num |-> num_of_token],
                  g, pc)

\* print_wp walking along next, as check_wp does.
print_wp_next == Walk(wp_next, head, head, NR_WP + 1)

\* print_wp: the ids it prints, in order (it walks along prev).
print_wp == Walk(wp_prev, head, head, NR_WP + 1)

(***************************************************************************)
(* strtol(arg, NULL, 10) of cmd_d.                                         *)
(***************************************************************************)
strtol10(s) ==
    IF LitAt(s, 1, <<"-">>) THEN -ParseDigits(s, 2, 10, 0)
    ELSE ParseDigits(s, 1, 10, 0)

DigitChar(d) ==
    CASE d = 0 -> "0" [] d = 1 -> "1" [] d = 2 -> "2" [] d = 3 -> "3" [] d = 4 -> "4"
      [] d = 5 -> "5" [] d = 6 -> "6" [] d = 7 -> "7" [] d = 8 -> "8" [] d = 9 -> "9"

\* The decimal numeral of n >= 0, as the user types it.
RECURSIVE Numeral(_)
Numeral(n) ==
    IF n < 10 THEN <<DigitChar(n)>> ELSE Numeral(n \div 10) \o <<DigitChar(n % 10)>>

(***************************************************************************)
(* The command handlers of sdb.c and the state they act on.                *)
(***************************************************************************)
Pool ==
    [next |-> wp_next, prev |-> wp_prev, counter |-> wp_counter,
     last_val |-> wp_last_val, expr |-> wp_expr]

\* The record of a handler's run: op and arg name the command, n is the
\* number cmd_d parsed, st is "ok" or "abort" (the process ended inside the
\* handler), ok the success flag the handler read, val the value expr
\* returned, msg its first diagnostic, why, at and calls the st, at and calls
\* of that call of expr, watch whether wp_watch was called, id
\* the id wp_watch printed, ret the value free_wp or check_wp returned,
\* reported the ids check_wp printed a change for, visited the ids of the
\* watchpoints its loop body ran on, in order, listed the ids print_wp
\* printed.  Two fields are history: active tells whether the slot cmd_d
\* named was on the active list, and freed names, in the record of a cmd_w,
\* the active slot that the command just before it removed (NoSlot: none).
NoSlot == NR_WP

OutBase(op, arg) ==
    [op |-> op, arg |-> arg, n |-> 0, st |-> "ok", ok |-> FALSE, val |-> 0,
     msg |-> "", why |-> "ret", at |-> "", calls |-> 0, watch |-> FALSE,
     id |-> 0, ret |-> 0, reported |-> <<>>, visited |-> <<>>, listed |-> <<>>,
     active |-> FALSE, freed |-> NoSlot]

NoExpect == [known |-> FALSE, val |-> 0, form |-> "none", ops |-> {}, nops |-> 0]

\* The state after init_sdb.
InitBase ==
    /\ wp_next = init_wp_pool.next
    /\ wp_prev = init_wp_pool.prev
    /\ wp_counter = [i \in Slots |-> 0]
    /\ wp_last_val = [i \in Slots |-> 0]
    /\ wp_expr = [i \in Slots |-> <<>>]
    /\ tokens = EmptyTokens
    /\ num_of_token = 0
    /\ halted = FALSE
    /\ out = OutBase("init", <<>>)
    /\ onlyCreates = TRUE
    /\ born = <<>>

UnchangedPool == UNCHANGED <<wp_next, wp_prev, wp_counter, wp_last_val, wp_expr, born>>

SetPool(W) ==
    /\ wp_next' = W.next
    /\ wp_prev' = W.prev
    /\ wp_counter' = W.counter
    /\ wp_last_val' = W.last_val
    /\ wp_expr' = W.expr

\* cmd_p(args): g is the content of the uninitialised local `result`.
cmd_p(args, g) ==
    LET r == expr(args, tokens, g, pc)
    IN /\ tokens' = r.tokens
       /\ num_of_token' = r.num
       /\ halted' = (r.st # "ret")
       /\ out' = [OutBase("cmd_p", args) EXCEPT
                     !.st = IF r.st = "ret" THEN "ok" ELSE "abort",
                     !.ok = r.success, !.val = r.val, !.msg = r.msg,
        !.why = r.st, !.at = r.at, !.calls = r.calls,
                     !.why = r.st, !.at = r.at, !.calls = r.calls]
       /\ UnchangedPool
       /\ UNCHANGED <<pc, onlyCreates>>

\* cmd_w(args), args not NULL: g is the content of the uninitialised local
\* `success`.
\* r is what expr returned, w what wp_watch would return on r.val, o the
\* record of the run up to the call of expr.
cmd_w_act(r, w, o) ==
    /\ tokens' = r.tokens
    /\ num_of_token' = r.num
    /\ UNCHANGED <<pc, onlyCreates>>
    /\ IF r.st # "ret"
       THEN /\ halted' = TRUE
            /\ out' = [o EXCEPT !.st = "abort"]
            /\ UnchangedPool
       ELSE IF ~r.success
       THEN /\ halted' = FALSE
            /\ out' = o
            /\ UnchangedPool
       ELSE IF w.st # "ret"
       THEN /\ halted' = TRUE
            /\ out' = [o EXCEPT !.st = "abort", !.watch = TRUE]
            /\ UnchangedPool
       ELSE /\ halted' = FALSE
            /\ out' = [o EXCEPT !.watch = TRUE, !.id = w.res]
            /\ SetPool(w.pool)
            /\ born' = Append(born, w.res)

cmd_w_out(args, r) ==
    [OutBase("cmd_w", args) EXCEPT
        !.ok = r.success, !.val = r.val, !.msg = r.msg,
        !.freed = IF out.op = "cmd_d" /\ out.ret = 0 /\ out.active
                  THEN out.n ELSE NoSlot]

cmd_w_with(args, r) == cmd_w_act(r, wp_watch(Pool, args, r.val), cmd_w_out(args, r))

cmd_w(args, g) == cmd_w_with(args, expr(args, tokens, g, pc))

\* cmd_d with the argument text arg.
cmd_d(arg) ==
    LET no == strtol10(arg)
        f == free_wp(Pool, no)
    IN /\ SetPool(f.pool)
       /\ born' = SelectSeq(born, LAMBDA x : x # no)
       /\ out' = [OutBase("cmd_d", arg) EXCEPT
                     !.n = no, !.ret = f.ret, !.active = (no \in SeqToSet(ActiveList))]
       /\ onlyCreates' = FALSE
       /\ UNCHANGED <<tokens, num_of_token, pc, halted>>

(***************************************************************************)
(* Inputs.                                                                 *)
(***************************************************************************)
\* The texts a watchpoint is set on.
WatchTexts == {<<"$", "p", "c">>}

\* The arguments given to the d command: every slot number and the two
\* numbers next to the range.
DeleteArgs == {Numeral(n) : n \in 0..NR_WP} \cup {<<"-", "1">>}

\* The spelling of a binary operator.
OpText(op) ==
    CASE op = "+" -> <<"+">> [] op = "-" -> <<"-">> [] op = "*" -> <<"*">>
      [] op = "/" -> <<"/">> [] op = "==" -> <<"=", "=">> [] op = "<" -> <<"<">>
      [] op = ">" -> <<">">> [] op = "<=" -> <<"<", "=">> [] op = ">=" -> <<">", "=">>

\* The meaning of a binary operator on integers; def is FALSE for x / 0.
RefApply(op, a, b) ==
    LET bool(t) == IF t THEN 1 ELSE 0
        abs(x) == IF x < 0 THEN -x ELSE x
        sgn(x) == IF x < 0 THEN -1 ELSE 1
    IN CASE op = "+" -> [def |-> TRUE, val |-> a + b]
         [] op = "-" -> [def |-> TRUE, val |-> a - b]
         [] op = "*" -> [def |-> TRUE, val |-> a * b]
         [] op = "/" -> IF b = 0 THEN [def |-> FALSE, val |-> 0]
                        ELSE [def |-> TRUE, val |-> sgn(a) * sgn(b) * (abs(a) \div abs(b))]
         [] op = "==" -> [def |-> TRUE, val |-> bool(a = b)]
         [] op = "<" -> [def |-> TRUE, val |-> bool(a < b)]
         [] op = ">" -> [def |-> TRUE, val |-> bool(a > b)]
         [] op = "<=" -> [def |-> TRUE, val |-> bool(a <= b)]
         [] op = ">=" -> [def |-> TRUE, val |-> bool(a >= b)]

MulOps == {"*", "/"}

AddOps == {"+", "-"}

RelOps == {"==", "<", ">", "<=", ">="}

\* One pass over the chain vals[1] ops[1] vals[2] ... from the left: every
\* operator of level is applied to the value built so far and the next one,
\* the other operators are kept.
RECURSIVE Collapse(_, _, _, _)
Collapse(vals, ops, level, def) ==
    IF ops = <<>> THEN [vals |-> vals, ops |-> ops, def |-> def]
    ELSE IF Head(ops) \in level
    THEN LET a == RefApply(Head(ops), vals[1], vals[2])
         IN Collapse(<<a.val>> \o SubSeq(vals, 3, Len(vals)), Tail(ops), level,
                     def /\ a.def)
    ELSE LET r == Collapse(Tail(vals), Tail(ops), level, def)
         IN [vals |-> <<vals[1]>> \o r.vals, ops |-> <<Head(ops)>> \o r.ops, def |-> r.def]

\* The value of a chain under the usual precedence, each level associating
\* to the left.
ChainValue(vals, ops) ==
    LET m == Collapse(vals, ops, MulOps, TRUE)
        a == Collapse(m.vals, m.ops, AddOps, m.def)
        r == Collapse(a.vals, a.ops, RelOps, a.def)
    IN [def |-> r.def, val |-> r.vals[1]]

\* Integer literals, each with the number it denotes.
ChainLits ==
    {[text |-> <<"0">>, val |-> 0], [text |-> <<"3">>, val |-> 3],
     [text |-> <<"0", "x", "1", "0">>, val |-> 16]}

ChainOps == MulOps \cup AddOps \cup RelOps

\* The chains of k operators.
Chains(k) ==
    {[lits |-> l, ops |-> o] : l \in [1..(k + 1) -> ChainLits], o \in [1..k -> ChainOps]}

RECURSIVE ChainTextFrom(_, _)
ChainTextFrom(c, i) ==
    IF i > Len(c.ops) THEN c.lits[i].text
    ELSE c.lits[i].text \o OpText(c.ops[i]) \o ChainTextFrom(c, i + 1)

ChainText(c) == ChainTextFrom(c, 1)

ChainExpect(c) ==
    LET v == ChainValue([i \in 1..Len(c.lits) |-> c.lits[i].val], c.ops)
    IN [known |-> v.def, val |-> v.val, form |-> "chain",
        ops |-> {c.ops[i] : i \in 1..Len(c.ops)}, nops |-> Len(c.ops)]

\* Expressions with parenthesised groups, each with its value.
ParenLits == {[text |-> <<"2">>, val |-> 2], [text |-> <<"3">>, val |-> 3]}

ParenOps == {"+", "-", "*"}

Join(x, op, y) ==
    [text |-> x.text \o OpText(op) \o y.text, val |-> RefApply(op, x.val, y.val).val]

Group(x) == [text |-> <<"(">> \o x.text \o <<")">>, val |-> x.val]

ParenGroups ==
    {Group(x) : x \in ParenLits}
    \cup {Group(Join(a, op, b)) : a \in ParenLits, op \in ParenOps, b \in ParenLits}

ParenOperands == ParenLits \cup ParenGroups

ParenJoins ==
    {Join(x[1], op, x[2]) : x \in (ParenOperands \X ParenGroups) \cup (ParenGroups \X ParenOperands),
                            op \in ParenOps}

ParenInputs == ParenGroups \cup ParenJoins \cup {Group(j) : j \in ParenJoins}

\* Lexer inputs: up to MaxPieces pieces, one after the other.
LexPieces == {<<"+">>, <<"-">>, <<"*">>, <<"1">>, <<")">>, <<"$", "a">>, <<" ">>}

RECURSIVE Concat(_, _)
Concat(f, i) == IF i > Len(f) THEN <<>> ELSE f[i] \o Concat(f, i + 1)

LexInputs ==
    UNION {{Concat(f, 1) : f \in [1..k -> LexPieces]} : k \in 1..MaxPieces}

\* Earlier p commands: each returns to the prompt and leaves tokens behind.
LexPriors ==
    {<<"1", "-", "1">>, <<"1", "*", "$", "a">>, <<")">>, <<"-", "1">>}

\* Evaluator inputs: up to MaxEvalPieces pieces, one after the other.  "$pc"
\* is the register the resolver maps, "$a" one it does not map, "@" a
\* character no rule matches.
EvalPieces ==
    {<<"1">>, <<"$", "p", "c">>, <<"$", "a">>, <<"(">>, <<")">>, <<"+">>, <<"-">>,
     <<"*">>, <<"/">>, <<"@">>}

EvalInputs ==
    UNION {{Concat(f, 1) : f \in [1..k -> EvalPieces]} : k \in 1..MaxEvalPieces}

\* 1+1+...+1 with k operators.
RECURSIVE LongChain(_)
LongChain(k) == IF k = 0 THEN <<"1">> ELSE LongChain(k - 1) \o <<"+", "1">>

\* Inputs of NR_TOKEN - 1, NR_TOKEN and NR_TOKEN + 1 tokens.
LongInputs ==
    {LongChain((NR_TOKEN \div 2) - 1),
     <<"-">> \o LongChain((NR_TOKEN \div 2) - 1),
     <<"-", "-">> \o LongChain((NR_TOKEN \div 2) - 1)}

\* The texts given to the w command when arming: one that evaluates, one with
\* a character no rule matches, one with unbalanced parentheses, one naming a
\* register the resolver does not map, one whose only token is no operand.
ArmTexts == {<<"$", "p", "c">>, <<"@">>, <<")">>, <<"$", "a">>, <<"+">>}

(***************************************************************************)
(* Actions.                                                                *)
(***************************************************************************)
\* The w command.
CmdW ==
    /\ ~halted
    /\ \E args \in WatchTexts, g \in BOOLEAN : cmd_w(args, g)
    /\ UNCHANGED <<pending, expect>>

\* The d command.
CmdD ==
    /\ ~halted
    /\ \E arg \in DeleteArgs : cmd_d(arg)
    /\ UNCHANGED <<pending, expect>>

\* check_wp, called after the simulated CPU has run.
CheckWp ==
    /\ ~halted
    /\ \A i \in SeqToSet(ActiveList) : wp_counter[i] < MaxCounter
    /\ \E g \in BOOLEAN :
          LET S == check_wp(g)
          IN /\ wp_counter' = S.counter
             /\ wp_last_val' = S.last_val
             /\ tokens' = S.tokens
             /\ num_of_token' = S.num
             /\ halted' = (S.st # "ret")
             /\ out' = [OutBase("check_wp", <<>>) EXCEPT
                           !.st = IF S.st = "ret" THEN "ok" ELSE "abort",
                           !.ret = S.res, !.reported = S.reported,
                           !.visited = S.visited]
    /\ onlyCreates' = FALSE
    /\ UNCHANGED <<wp_next, wp_prev, wp_expr, born, pc, pending, expect>>

\* The listing of the watchpoints (print_wp).
PrintWp ==
    /\ ~halted
    /\ out' = [OutBase("print_wp", <<>>) EXCEPT !.listed = print_wp]
    /\ onlyCreates' = FALSE
    /\ UnchangedPool
    /\ UNCHANGED <<tokens, num_of_token, pc, halted, pending, expect>>

\* The simulated CPU runs and the register changes.
Step ==
    /\ ~halted
    /\ \E v \in 0..MaxPc : v # pc /\ pc' = v
    /\ out' = OutBase("step", <<>>)
    /\ UnchangedPool
    /\ UNCHANGED <<tokens, num_of_token, halted, pending, expect, onlyCreates>>

\* The p command on the next line typed ahead.
RunPending ==
    /\ ~halted
    /\ pending # <<>>
    /\ \E g \in BOOLEAN : cmd_p(Head(pending), g)
    /\ pending' = Tail(pending)
    /\ UNCHANGED expect

\* The w command on a text that may fail to lex or to evaluate.
ArmW ==
    /\ ~halted
    /\ \E args \in ArmTexts, g \in BOOLEAN : cmd_w(args, g)
    /\ UNCHANGED <<pending, expect>>

(***************************************************************************)
(* Specifications.                                                         *)
(***************************************************************************)
\* A debugging session on the watchpoints.
Init ==
    /\ InitBase
    /\ pc = 0
    /\ pending = <<>>
    /\ expect = NoExpect

Next == CmdW \/ CmdD \/ CheckWp \/ PrintWp \/ Step

Spec == Init /\ [][Next]_vars

\* A p command on a lexer input, from a fresh start or after one earlier p
\* command that has left its tokens in the buffer.
InitLex ==
    /\ InitBase
    /\ pc = 0
    /\ expect = NoExpect
    /\ \E e \in LexInputs :
          \/ pending = <<e>>
          \/ \E p \in LexPriors : pending = <<p, e>>

NextEval == RunPending

SpecLex == InitLex /\ [][NextEval]_vars

\* One p command on an operator chain, from a fresh start.
InitChain ==
    /\ InitBase
    /\ pc = 0
    /\ \E k \in 0..MaxOps : \E c \in Chains(k) :
          /\ pending = <<ChainText(c)>>
          /\ expect = ChainExpect(c)

SpecChain == InitChain /\ [][NextEval]_vars

\* One p command on an expression with parenthesised groups, from a fresh start.
InitParen ==
    /\ InitBase
    /\ pc = 0
    /\ \E x \in ParenInputs :
          /\ pending = <<x.text>>
          /\ expect = [known |-> TRUE, val |-> x.val, form |-> "paren",
                       ops |-> {}, nops |-> 0]

SpecParen == InitParen /\ [][NextEval]_vars

\* A p command on an evaluator input, from a fresh start.
InitEval ==
    /\ InitBase
    /\ pc \in 0..MaxPc
    /\ \E e \in EvalInputs \cup LongInputs : pending = <<e>>
    /\ expect = NoExpect

SpecEval == InitEval /\ [][NextEval]_vars

\* A session of w commands on good and bad texts, and of d commands.
NextArm == ArmW \/ CmdD

SpecArm == Init /\ [][NextArm]_vars

(***************************************************************************)
(* Properties.                                                             *)
(***************************************************************************)
Reverse(q) == [i \in 1..Len(q) |-> q[Len(q) + 1 - i]]

IsPrefix(p, q) == Len(p) <= Len(q) /\ SubSeq(q, 1, Len(p)) = p

\* C1: after init_wp_pool and any sequence of w, d (any number, in range or
\* not, active or free) and check_wp, the links of every node point into the
\* pool, x.next.prev = x and x.prev.next = x hold for every node of the two
\* rings, and every slot is on exactly one of the free and the active list.
C1_RingsPartitionPool ==
    /\ \A x \in Nodes : wp_next[x] \in Nodes /\ wp_prev[x] \in Nodes
    /\ \A x \in Nodes : wp_prev[wp_next[x]] = x /\ wp_next[wp_prev[x]] = x
    /\ SeqToSet(ActiveList) \cup SeqToSet(FreeList) = Slots
    /\ SeqToSet(ActiveList) \cap SeqToSet(FreeList) = {}
    /\ Len(ActiveList) + Len(FreeList) = NR_WP
    /\ Reverse(ActiveList) = Walk(wp_prev, head, head, NR_WP + 1)
    /\ Reverse(FreeList) = Walk(wp_prev, free_, free_, NR_WP + 1)

\* A d command on a slot that was already free, with a watchpoint active
\* that check_wp has visited.
C1_Witness ==
    /\ out.op = "cmd_d" /\ out.ret = 0 /\ ~out.active
    /\ \E i \in SeqToSet(ActiveList) : wp_counter[i] > 0
    /\ Len(FreeList) = 2

\* The value the expression watched by slot i has now.
WatchedNow(i) == IF wp_expr[i] = <<"$", "p", "c">> THEN pc ELSE 0

Occurrences(q, x) == Cardinality({k \in 1..Len(q) : q[k] = x})

\* C2: a check_wp call prints no change for a watchpoint it visits for the
\* first time; for a watchpoint visited before, it prints exactly one change
\* and stores the new value when the watched value differs from the stored
\* one, and prints nothing when it does not.
C2_CheckReportsChanges ==
    [][out'.op = "check_wp" =>
         \A i \in SeqToSet(ActiveList) :
            /\ wp_counter[i] = 0 => Occurrences(out'.reported, i) = 0
            /\ (wp_counter[i] > 0 /\ WatchedNow(i) # wp_last_val[i]) =>
                  /\ Occurrences(out'.reported, i) = 1
                  /\ wp_last_val'[i] = WatchedNow(i)
            /\ (wp_counter[i] > 0 /\ WatchedNow(i) = wp_last_val[i]) =>
                  Occurrences(out'.reported, i) = 0]_vars

\* C3: a w command that creates a watchpoint right after a d command removed
\* the active watchpoint k gives the new watchpoint the id k.
C3_RemoveThenCreateReuses ==
    (out.op = "cmd_w" /\ out.watch /\ out.freed # NoSlot) =>
        (out.st = "ok" /\ out.id = out.freed)

\* A create that reuses the slot just removed while another slot is free
\* and has been free for longer.
C3_Witness ==
    /\ out.op = "cmd_w" /\ out.watch /\ out.st = "ok"
    /\ out.freed # NoSlot /\ out.id = out.freed
    /\ Len(FreeList) >= 1
    /\ Len(ActiveList) >= 2

\* C4: as long as only creates have been issued since init_wp_pool, the k-th
\* create succeeds and returns k-1, for k = 1..NR_WP.
C4_FreshCreatesCountUp ==
    onlyCreates =>
        /\ born = [k \in 1..Len(born) |-> k - 1]
        /\ (out.op = "cmd_w" /\ out.watch) =>
              \/ out.st = "ok" /\ out.id = Len(born) - 1
              \/ out.st = "abort" /\ Len(born) = NR_WP

\* The NR_WP-th create of a session of creates.
C4_Witness ==
    /\ onlyCreates
    /\ out.op = "cmd_w" /\ out.watch /\ out.st = "ok" /\ out.id = NR_WP - 1
    /\ Len(born) = NR_WP

\* C5: a create issued when the free list is empty returns to its caller
\* (the process goes on) and changes nothing of the pool.
C5_ExhaustedCreateReturns ==
    [][(wp_next[free_] = free_ /\ out'.op = "cmd_w" /\ out'.watch) =>
          /\ out'.st = "ok"
          /\ ~halted'
          /\ UNCHANGED <<wp_next, wp_prev, wp_counter, wp_last_val, wp_expr>>]_vars

\* C6 as claimed: print_wp lists the active watchpoints latest created first.
C6_ListsLatestFirst == out.op = "print_wp" => out.listed = Reverse(born)

\* C6 as amended: print_wp lists the active watchpoints in the order of their
\* creation, the earliest created first.
C6_ListsOldestFirst == out.op = "print_wp" => out.listed = born

\* A listing of at least two watchpoints, the older in a slot of higher
\* number: slots have been removed and taken again.
C6_Witness ==
    /\ out.op = "print_wp"
    /\ Len(out.listed) >= 2
    /\ out.listed[1] > out.listed[2]

SevenOps == {"+", "-", "*", "/", "==", "<", ">"}

\* C7: a chain of integer literals and the operators + - * / == < > without
\* a zero divisor evaluates to its value under the usual precedence, each
\* level associating to the left.
C7_ChainPrecedence ==
    (out.op = "cmd_p" /\ expect.form = "chain" /\ expect.known
        /\ expect.ops \subseteq SevenOps) =>
        (out.st = "ok" /\ out.val = expect.val)

\* 3-3-3 evaluated to (3-3)-3.
C7_Witness ==
    /\ out.op = "cmd_p" /\ out.arg = <<"3", "-", "3", "-", "3">>
    /\ expect.form = "chain" /\ expect.known
    /\ out.st = "ok" /\ out.val = -3

\* C8: an expression with correctly matched parenthesised groups evaluates
\* to the value of the bracketed expression.
C8_GroupsEvaluated ==
    (out.op = "cmd_p" /\ expect.form = "paren") =>
        (out.st = "ok" /\ out.val = expect.val)

\* C9: a comparison a op b of two integer literals, op one of == < > <= >=,
\* is tokenized and evaluated without a diagnostic and yields 1 when the
\* relation holds and 0 when it does not.
C9_ComparisonsEvaluate ==
    (out.op = "cmd_p" /\ expect.form = "chain" /\ expect.nops = 1
        /\ expect.ops \subseteq RelOps) =>
        (out.st = "ok" /\ out.msg = "" /\ out.val = expect.val)

OpKinds == {TK_ADD, TK_MINUS, TK_MUL, TK_POS, TK_NEG, TK_DEREF}

\* The types of the '+', '-' and '*' tokens in the buffer, in order.
EmittedOps ==
    SelectSeq([k \in 1..num_of_token |-> tokens[k - 1].type], LAMBDA t : t \in OpKinds)

\* The types the '+', '-' and '*' characters of s, from position i on, are to
\* get; prev is the last character before i that is no blank ("" when there
\* is none).  An integer literal or a register reference ends with a word
\* character.
RECURSIVE RefOps(_, _, _)
RefOps(s, i, prev) ==
    IF i > Len(s) THEN <<>>
    ELSE IF s[i] = " " THEN RefOps(s, i + 1, prev)
    ELSE IF s[i] \in {"+", "-", "*"}
    THEN LET binary == prev # "" /\ prev \in WordChars \cup {")"}
             kind == CASE s[i] = "+" -> IF binary THEN TK_ADD ELSE TK_POS
                       [] s[i] = "-" -> IF binary THEN TK_MINUS ELSE TK_NEG
                       [] s[i] = "*" -> IF binary THEN TK_MUL ELSE TK_DEREF
         IN <<kind>> \o RefOps(s, i + 1, s[i])
    ELSE RefOps(s, i + 1, s[i])

\* C10: after make_token on a text, every '+', '-' or '*' it emitted is unary
\* when no token or a token other than an integer, a register or ')' stands
\* before it in the text, and binary otherwise, whatever the buffer held.
C10_UnaryBinaryByPrecedingToken ==
    out.op = "cmd_p" =>
        IF out.msg = "no match" THEN IsPrefix(EmittedOps, RefOps(out.arg, 1, ""))
        ELSE EmittedOps = RefOps(out.arg, 1, "")

\* ") -" lexed after "1-1": the '-' after the blank is binary, and the third
\* token of the earlier call is still in the buffer.
C10_Witness ==
    /\ out.op = "cmd_p" /\ out.arg = <<")", " ", "-">>
    /\ num_of_token = 2
    /\ EmittedOps = <<TK_MINUS>>
    /\ tokens[2].type = TK_INT

\* The p command has run on a text that is one register reference.
SingleRegister ==
    /\ out.op = "cmd_p"
    /\ out.msg # "no match"
    /\ out.why # "overflow"
    /\ num_of_token = 1
    /\ tokens[0].type = TK_REG

\* C11: evaluating a text that is a single register reference returns the
\* value the resolver maps the name to, with ok = true, when the name is
\* mapped, and returns ok = false when the name is not mapped.
C11_RegisterResolves ==
    SingleRegister =>
        /\ out.st = "ok"
        /\ IF isa_reg_str2val(tokens[0].str, pc).feedback
           THEN out.ok /\ out.val = isa_reg_str2val(tokens[0].str, pc).val
           ELSE ~out.ok

\* C12: expr returns ok = false for every failing input (a lexing failure,
\* unbalanced parentheses, an empty expression or subexpression, an invalid
\* operand, an unknown register), in the outermost call and in a nested one:
\* whenever a diagnostic was printed the p command returns to the prompt
\* having read ok = false.
C12_FailuresReported ==
    (out.op = "cmd_p" /\ out.msg # "") => (out.st = "ok" /\ ~out.ok)

\* The p command has run and make_token returned true.
Lexed == out.op = "cmd_p" /\ out.msg # "no match" /\ out.why # "overflow"

\* The value of the open-parenthesis counter after the tokens 0..(n - 1), and
\* -1 once it has gone negative.
RECURSIVE ParenDepth(_, _)
ParenDepth(toks, n) ==
    IF n = 0 THEN 0
    ELSE LET d == ParenDepth(toks, n - 1)
         IN IF d < 0 THEN -1
            ELSE IF toks[n - 1].type = TK_PAR_L THEN d + 1
            ELSE IF toks[n - 1].type = TK_PAR_R THEN d - 1
            ELSE d

\* C13: for every expression whose parentheses are unbalanced, an opening
\* parenthesis that is never closed included, evaluation ends with ok = false
\* and reaches no assertion failure or abort.
C13_UnbalancedReturnsNotOk ==
    (Lexed /\ ParenDepth(tokens, num_of_token) # 0) => (out.st = "ok" /\ ~out.ok)

\* C14: while any input is tokenized the number of emitted tokens stays at
\* most 32 and no token is written at index 32 or beyond; an input with a
\* 33rd token makes the tokenizer fail with a defined error.
C14_TokenBufferBounded ==
    out.op = "cmd_p" =>
        /\ num_of_token <= NR_TOKEN
        /\ out.why # "overflow"

\* C15: evaluating a division whose right operand evaluates to 0 yields the
\* defined failure DivisionByZero, reported as ok = false, and the native
\* integer division is not performed.
C15_DivisionByZeroDefined ==
    out.op = "cmd_p" => out.why # "fpe"

\* C16: the w command on a text whose lexing or evaluation fails (a
\* diagnostic is printed) creates no watchpoint: the free list, the active
\* list and every slot's text, last value and counter are the same after the
\* command as before it.
C16_FailedArmCreatesNothing ==
    [][(out'.op = "cmd_w" /\ out'.msg # "")
           => UNCHANGED <<wp_next, wp_prev, wp_counter, wp_last_val, wp_expr>>]_vars

\* The d command of this step named a slot of the pool that was not active.
RemoveInactive == out'.op = "cmd_d" /\ out'.n \in Slots /\ ~out'.active

\* C17 as stated: remove(id) with an in-range id that is not active returns
\* success and is a no-op: the membership and the order of the free list and
\* of the active list are unchanged.
C17_RemoveInactiveIsNoOp ==
    [][RemoveInactive =>
           /\ out'.ret = 0
           /\ ActiveList' = ActiveList
           /\ FreeList' = FreeList]_vars

\* C17: remove(id) with an in-range id that is not active returns success,
\* leaves the active list and every slot's text, last value and counter as
\* they are and keeps the members of the free list, but moves the slot to the
\* front of the free list, so that the next create issues this id.
C17_RemoveInactiveMovesToFront ==
    [][RemoveInactive =>
           /\ out'.ret = 0
           /\ ActiveList' = ActiveList
           /\ FreeList' = <<out'.n>> \o SelectSeq(FreeList, LAMBDA x : x # out'.n)
           /\ UNCHANGED <<wp_counter, wp_last_val, wp_expr>>]_vars

\* On a pool with no active watchpoint, d 2 has put slot 2 in front of the
\* slots 0 and 1.
C17_Witness ==
    /\ out.op = "cmd_d" /\ out.n = 2 /\ ~out.active /\ out.ret = 0
    /\ born = <<>>
    /\ FreeList = <<2, 0, 1>>

\* C18: for every token sequence the lexer produces whose parenthesis counter
\* never goes negative, find_major_operator returns a valid operator index
\* on every range cal_expr passes to it: assert(major_op_pos != -1) does not
\* fail, unary operators applied to a group or to another unary operator
\* included.
C18_MajorOperatorFound ==
    (Lexed /\ ParenDepth(tokens, num_of_token) >= 0) => out.at # "major_op_pos"

\* C19: get_priority is never called on an operand: the assert(0) at its end
\* is not reached, a register reference at depth 0 before the last token of
\* the range included.
C19_PriorityOfOperatorsOnly ==
    out.op = "cmd_p" => out.at # "get_priority"

\* C20: evaluation always terminates: every recursive call of cal_expr is on
\* a range strictly shorter than the range of the call that makes it, so the
\* evaluation of n <= 32 tokens ends (with a result, a diagnostic, an
\* assertion failure or a trap) after at most 2n + 1 calls.
C20_EvaluationTerminates ==
    out.op = "cmd_p" =>
        /\ out.why # "noshrink"
        /\ out.calls <= 2 * num_of_token + 1

\* An expression of 32 tokens has been evaluated to its value, with one call
\* of cal_expr for each token at the least.
C20_Witness ==
    /\ out.op = "cmd_p" /\ out.st = "ok" /\ out.why = "ret" /\ out.msg = ""
    /\ num_of_token = NR_TOKEN
    /\ out.calls >= NR_TOKEN
    /\ out.val = (NR_TOKEN \div 2) - 2

\* C21: each check_wp call visits every active watchpoint exactly once and
\* no free slot, the most recently created first, and then ends at the
\* sentinel of the active list and returns.
C21_CheckVisitsLatestFirst ==
    out.op = "check_wp" => (out.st = "ok" /\ out.visited = Reverse(born))

\* C22: expr assigns the caller's success flag on every return path: the
\* flag the p command reads after the call is the one expr gives for the
\* text whatever the flag held before, true when the evaluation printed no
\* diagnostic and false when it printed one.
C22_SuccessAssigned ==
    [][(out'.op = "cmd_p" /\ pending # <<>>) =>
           /\ out'.ok = expr(Head(pending), tokens, TRUE, pc).success
           /\ out'.ok = expr(Head(pending), tokens, FALSE, pc).success
           /\ out'.st = "ok" => (out'.ok = (out'.msg = ""))]_vars

\* The d command of this step named an active watchpoint.
RemoveActive == out'.op = "cmd_d" /\ out'.n \in Slots /\ out'.active

\* C23: remove(id) of an active watchpoint affects only that watchpoint: the
\* other active watchpoints keep their relative order and every slot keeps
\* its text, last value and counter; and no check_wp visits or reports an id
\* that is not active, so a removed id is left alone until a create issues it
\* again.
C23_RemoveAffectsOnlyThat ==
    [][/\ RemoveActive =>
             /\ ActiveList' = SelectSeq(ActiveList, LAMBDA x : x # out'.n)
             /\ born' = SelectSeq(born, LAMBDA x : x # out'.n)
             /\ UNCHANGED <<wp_counter, wp_last_val, wp_expr>>
       /\ out'.op = "check_wp" =>
             /\ SeqToSet(out'.visited) \subseteq SeqToSet(born')
             /\ SeqToSet(out'.reported) \subseteq SeqToSet(born')
             /\ \A i \in Slots \ SeqToSet(born') :
                   wp_counter'[i] = wp_counter[i] /\ wp_last_val'[i] = wp_last_val[i]]_vars

\* Slot 1 was created between the slots 0 and 2, visited by a check_wp and
\* then removed; a later check_wp has visited the slots 2 and 0, has reported
\* a change for both and has left slot 1 alone.
C23_Witness ==
    /\ out.op = "check_wp" /\ out.st = "ok"
    /\ born = <<0, 2>>
    /\ FreeList = <<1>>
    /\ out.visited = <<2, 0>>
    /\ out.reported = <<2, 0>>
    /\ wp_counter[1] = 1
    /\ wp_counter[0] >= 2 /\ wp_counter[2] >= 2

====
